---- MODULE Spec2Model ----
(***************************************************************************)
(* Model of the cloud environment layer of rocksdb-cloud:                  *)
(*   cloud/aws/aws_file.h   pathtoName                                     *)
(*   cloud/cloud_env.cc     CloudEnvOptions::GetNameFromEnvironment,       *)
(*                          BucketOptions, CloudEnv::NewAwsEnv, ~CloudEnv  *)
(* A std::string is a sequence of one-character strings.                   *)
(***************************************************************************)
EXTENDS Integers, Sequences, FiniteSets, TLC

VARIABLES
  s, s0, directory, calls,
  bo, env, result, found, call, setenvs, WIN32_WINNT,
  cloud_options, options, args, USE_AWS, st, cenv, phase,
  purge_thread_, purger, purger_stop, purgerStarts,
  cloud_log_controller, storage_provider

pathVars == <<s, s0, directory, calls>>
bucketVars == <<bo, env, result, found, call, setenvs, WIN32_WINNT>>
envVars == <<cloud_options, options, args, USE_AWS, st, cenv, phase,
             purge_thread_, purger, purger_stop, purgerStarts,
             cloud_log_controller, storage_provider>>
vars == <<pathVars, bucketVars, envVars>>

----------------------------------------------------------------------------
(* Bounds *)

MaxPathLen == 5
MaxCalls == 2
MaxSetenv == 2
MaxBucketLen == 2

(* std::string helpers, 0-based positions as in the C++ library *)

npos == -1
Sep == "\\"
Colon == ":"
Dash == "-"
PathAlphabet == {"a", "b", Colon, Sep}

Min(a, b) == IF a < b THEN a ELSE b

StringsUpTo(alphabet, n) == UNION {[1..k -> alphabet] : k \in 0..n}

\* std::string::substr(pos, n): at most n characters starting at pos
Substr(str, pos, n) == SubSeq(str, pos + 1, Min(pos + n, Len(str)))

\* std::string::find(char)
FindChar(str, c) ==
  LET hits == {i \in 0..(Len(str) - 1) : str[i + 1] = c}
  IN IF hits = {} THEN npos ELSE CHOOSE i \in hits : \A j \in hits : i <= j

\* std::string::find of a two-character string
FindPair(str, c1, c2) ==
  LET hits == {i \in 0..(Len(str) - 2) : str[i + 1] = c1 /\ str[i + 2] = c2}
  IN IF hits = {} THEN npos ELSE CHOOSE i \in hits : \A j \in hits : i <= j

HasSep(str) == \E i \in 1..Len(str) : str[i] = Sep

Rep(c, k) == [i \in 1..k |-> c]

----------------------------------------------------------------------------
(* pathtoName, cloud/aws/aws_file.h *)

\* the drive-specifier step: directory and s after lines 16-21
DriveStep(str) ==
  LET drive_idx == FindPair(str, Colon, Sep)
  IN IF drive_idx # npos
     THEN [directory |-> Substr(str, 0, drive_idx) \o <<Dash>>,
           s |-> Substr(str, drive_idx + 2, Len(str) - drive_idx)]
     ELSE [directory |-> <<>>, s |-> str]

\* a loop body that appends the dash for an empty segment too
LoopBody_AlwaysDash(dir, str) ==
  LET drive_idx == FindChar(str, Sep)
  IN [directory |-> dir \o Substr(str, 0, drive_idx) \o <<Dash>>,
      s |-> Substr(str, drive_idx + 1, Len(str) - drive_idx - 1)]

\* one iteration of the while loop, lines 23-25
LoopBody(dir, str) ==
  LET drive_idx == FindChar(str, Sep)
  IN [directory |-> IF drive_idx # 0
                    THEN dir \o Substr(str, 0, drive_idx) \o <<Dash>>
                    ELSE dir,
      s |-> Substr(str, drive_idx + 1, Len(str) - drive_idx - 1)]

RECURSIVE PathLoop(_, _)
\* the while loop, lines 22-26
PathLoop(dir, str) ==
  IF FindChar(str, Sep) # npos
  THEN LET r == LoopBody(dir, str) IN PathLoop(r.directory, r.s)
  ELSE [directory |-> dir, s |-> str]

\* the whole function: ret is the returned string, s the value left in the
\* caller's string, which is passed by non-const reference
pathtoName(str) ==
  LET d == DriveStep(str)
      r == PathLoop(d.directory, d.s)
  IN [ret |-> IF r.s # <<>> THEN r.directory \o r.s ELSE r.directory,
      s |-> r.s]

PathInit ==
  /\ s \in StringsUpTo(PathAlphabet, MaxPathLen)
  /\ s0 = s
  /\ directory = <<>>
  /\ calls = 0

\* std::string name = pathtoName(s);
CallPathtoName ==
  /\ calls < MaxCalls
  /\ s0' = s
  /\ directory' = pathtoName(s).ret
  /\ s' = pathtoName(s).s
  /\ calls' = calls + 1
  /\ UNCHANGED <<bucketVars, envVars>>

----------------------------------------------------------------------------
(* The process environment and GetNameFromEnvironment, cloud/cloud_env.cc *)

nullptr == "nullptr"

EnvNames == {"ROCKSDB_CLOUD_TEST_BUCKET_NAME", "ROCKSDB_CLOUD_BUCKET_NAME",
             "ROCKSDB_CLOUD_TEST_BUCKET_PREFIX", "ROCKSDB_CLOUD_BUCKET_PREFIX",
             "ROCKSDB_CLOUD_TEST_OBECT_PATH", "ROCKSDB_CLOUD_OBJECT_PATH",
             "ROCKSDB_CLOUD_TEST_REGION", "ROCKSDB_CLOUD_REGION"}

\* values a variable can be set to; the empty string is a legal value
EnvValues == {<<>>, <<"e">>}

\* a char* from getenv: null, or a pointer to the value
NullValue == [null |-> TRUE, val |-> <<>>]
ValueOf(v) == [null |-> FALSE, val |-> v]

getenv(name) == env[name]

\* a lookup that consults alt before name
GetNameFromEnvironment_AltFirst(name, alt, res) ==
  LET first == IF alt # nullptr THEN getenv(alt) ELSE NullValue
      value == IF first.null THEN getenv(name) ELSE first
  IN IF ~value.null
     THEN [ret |-> TRUE, result |-> value.val]
     ELSE [ret |-> FALSE, result |-> res]

\* res is the content of *result on entry; ret the returned bool and result
\* the content of *result on return
GetNameFromEnvironment(name, alt, res) ==
  LET first == getenv(name)
      value == IF first.null /\ alt # nullptr THEN getenv(alt) ELSE first
  IN IF ~value.null
     THEN [ret |-> TRUE, result |-> value.val]
     ELSE [ret |-> FALSE, result |-> res]

----------------------------------------------------------------------------
(* BucketOptions, cloud/cloud_env.cc *)

RocksetPrefix == <<"r", "o", "c", "k", "s", "e", "t", ".">>
Unknown == <<"u", "n", "k", "n", "o", "w", "n">>
\* GetUserName counts the terminating null character in dwsize
UserName == <<"u", "NUL">>
\* std::to_string(geteuid())
EuidStrings == {<<"0">>}

BucketNames == {<<>>, <<"b">>}
Prefixes == {<<>>, <<"p">>}
ObjectPaths == {<<>>, <<"o">>}
Regions == {<<>>, <<"r">>}

\* BucketOptions::BucketOptions()
DefaultBucketOptions ==
  [prefix_ |-> RocksetPrefix, bucket_ |-> <<>>, name_ |-> <<>>,
   object_ |-> <<>>, region_ |-> <<>>]

\* a SetBucketName that composes the name without looking at the bucket
SetBucketName_NoClear(b, bucket, prefix) ==
  LET p == IF prefix # <<>> THEN prefix ELSE b.prefix_
  IN [b EXCEPT !.prefix_ = p, !.bucket_ = bucket, !.name_ = p \o bucket]

\* BucketOptions::SetBucketName(bucket, prefix) applied to the object b
SetBucketName(b, bucket, prefix) ==
  LET p == IF prefix # <<>> THEN prefix ELSE b.prefix_
  IN [b EXCEPT !.prefix_ = p,
               !.bucket_ = bucket,
               !.name_ = IF bucket = <<>> THEN <<>> ELSE p \o bucket]

\* BucketOptions::TEST_Initialize(bucket, object, region) applied to b;
\* userOk is the outcome of GetUserName, euid the string of geteuid()
TEST_Initialize(b, bucket, object, region, userOk, euid) ==
  LET rb == GetNameFromEnvironment("ROCKSDB_CLOUD_TEST_BUCKET_NAME",
                                   "ROCKSDB_CLOUD_BUCKET_NAME", b.bucket_)
      bucket1 == IF rb.ret THEN rb.result
                 ELSE IF WIN32_WINNT
                      THEN IF ~userOk THEN b.bucket_ \o Unknown
                                      ELSE b.bucket_ \o UserName
                      ELSE bucket \o euid
      rp == GetNameFromEnvironment("ROCKSDB_CLOUD_TEST_BUCKET_PREFIX",
                                   "ROCKSDB_CLOUD_BUCKET_PREFIX", <<>>)
      prefix1 == IF rp.ret THEN rp.result ELSE b.prefix_
      ro == GetNameFromEnvironment("ROCKSDB_CLOUD_TEST_OBECT_PATH",
                                   "ROCKSDB_CLOUD_OBJECT_PATH", b.object_)
      rr == GetNameFromEnvironment("ROCKSDB_CLOUD_TEST_REGION",
                                   "ROCKSDB_CLOUD_REGION", b.region_)
  IN [prefix_ |-> prefix1,
      bucket_ |-> bucket1,
      name_ |-> prefix1 \o bucket1,
      object_ |-> IF ~ro.ret THEN object ELSE ro.result,
      region_ |-> IF ~rr.ret THEN region ELSE rr.result]

NoCall == [op |-> "none", bucket |-> <<>>, prefix |-> <<>>,
           name |-> "", alt |-> ""]

BucketInit ==
  /\ bo = DefaultBucketOptions
  /\ env = [n \in EnvNames |-> NullValue]
  /\ result \in EnvValues \cup {<<"x">>}
  /\ found = FALSE
  /\ call = NoCall
  /\ setenvs = 0
  /\ WIN32_WINNT \in BOOLEAN

\* the test harness or the shell sets a variable before the code reads it
Setenv(n, v) ==
  /\ setenvs < MaxSetenv
  /\ env' = [env EXCEPT ![n] = ValueOf(v)]
  /\ setenvs' = setenvs + 1
  /\ UNCHANGED <<bo, result, found, call, WIN32_WINNT, pathVars, envVars>>

\* found = GetNameFromEnvironment(name, alt, &result);
CallGetNameFromEnvironment(n, a) ==
  /\ result' = GetNameFromEnvironment(n, a, result).result
  /\ found' = GetNameFromEnvironment(n, a, result).ret
  /\ call' = [NoCall EXCEPT !.op = "GetNameFromEnvironment",
                            !.name = n, !.alt = a]
  /\ UNCHANGED <<bo, env, setenvs, WIN32_WINNT, pathVars, envVars>>

\* bo.SetBucketName(bucket, prefix);
CallSetBucketName(bucket, prefix) ==
  /\ bo' = SetBucketName(bo, bucket, prefix)
  /\ call' = [NoCall EXCEPT !.op = "SetBucketName",
                            !.bucket = bucket, !.prefix = prefix]
  /\ UNCHANGED <<env, result, found, setenvs, WIN32_WINNT, pathVars, envVars>>

\* bo.TEST_Initialize(bucket, object, region);
CallTEST_Initialize(bucket, object, region) ==
  /\ Len(bo.bucket_) <= MaxBucketLen
  /\ \E userOk \in BOOLEAN, euid \in EuidStrings :
       bo' = TEST_Initialize(bo, bucket, object, region, userOk, euid)
  /\ call' = [NoCall EXCEPT !.op = "TEST_Initialize", !.bucket = bucket]
  /\ UNCHANGED <<env, result, found, setenvs, WIN32_WINNT, pathVars, envVars>>

----------------------------------------------------------------------------
(* CloudEnvOptions and CloudEnv::NewAwsEnv, cloud/cloud_env.cc *)

\* BucketOptions::IsValid(): a bucket has been named
IsValid(b) == b.name_ # <<>>

\* BucketOptions::SetObjectPath(object)
SetObjectPath(b, object) == [b EXCEPT !.object_ = object]

\* BucketOptions::SetRegion(region)
SetRegion(b, region) == [b EXCEPT !.region_ = region]

\* bucket options a caller can have configured before construction
ConfiguredBuckets ==
  {SetRegion(SetObjectPath(SetBucketName(DefaultBucketOptions, b, <<>>), o), r) :
     b \in BucketNames, o \in ObjectPaths, r \in Regions}

CloudEnvOptionsSet ==
  [src_bucket : ConfiguredBuckets, dest_bucket : ConfiguredBuckets,
   run_purger : BOOLEAN]

\* the raw strings of the convenience form
ArgStrings == {<<>>, <<"x">>}
StringArgs ==
  [src_cloud_bucket : ArgStrings, src_cloud_object : ArgStrings,
   src_cloud_region : ArgStrings, dest_cloud_bucket : ArgStrings,
   dest_cloud_object : ArgStrings, dest_cloud_region : ArgStrings]
NoStrings ==
  [src_cloud_bucket |-> <<>>, src_cloud_object |-> <<>>,
   src_cloud_region |-> <<>>, dest_cloud_bucket |-> <<>>,
   dest_cloud_object |-> <<>>, dest_cloud_region |-> <<>>]

\* outcomes of AwsEnv::NewAwsEnv: OK with an environment stored through
\* cenv, or a failure status with none
AwsOutcomes == {"OK", "IOError", "InvalidArgument"}

\* the options are edited in place, and empty strings are applied too
ApplyStrings_InPlace(co, a) ==
  LET src1 == SetBucketName(co.src_bucket, a.src_cloud_bucket, <<>>)
      src2 == SetObjectPath(src1, a.src_cloud_object)
      src3 == SetRegion(src2, a.src_cloud_region)
      dst1 == SetBucketName(co.dest_bucket, a.dest_cloud_bucket, <<>>)
      dst2 == SetObjectPath(dst1, a.dest_cloud_object)
      dst3 == SetRegion(dst2, a.dest_cloud_region)
      o == [co EXCEPT !.src_bucket = src3, !.dest_bucket = dst3]
  IN [cloud_options |-> o, options |-> o]

\* lines 117-128 of the convenience form: the local copy options after the
\* six conditional setters, and the caller's cloud_options, a const reference
ApplyStrings(co, a) ==
  LET src1 == IF a.src_cloud_bucket # <<>>
              THEN SetBucketName(co.src_bucket, a.src_cloud_bucket, <<>>)
              ELSE co.src_bucket
      src2 == IF a.src_cloud_object # <<>>
              THEN SetObjectPath(src1, a.src_cloud_object) ELSE src1
      src3 == IF a.src_cloud_region # <<>>
              THEN SetRegion(src2, a.src_cloud_region) ELSE src2
      dst1 == IF a.dest_cloud_bucket # <<>>
              THEN SetBucketName(co.dest_bucket, a.dest_cloud_bucket, <<>>)
              ELSE co.dest_bucket
      dst2 == IF a.dest_cloud_object # <<>>
              THEN SetObjectPath(dst1, a.dest_cloud_object) ELSE dst1
      dst3 == IF a.dest_cloud_region # <<>>
              THEN SetRegion(dst2, a.dest_cloud_region) ELSE dst2
  IN [cloud_options |-> co,
      options |-> [co EXCEPT !.src_bucket = src3, !.dest_bucket = dst3]]

\* the thread is started but not kept in purge_thread_
NewAwsEnv_Detached(o, aws, use_aws) ==
  IF ~use_aws
  THEN [st |-> "NotSupported", cenv |-> nullptr, thread |-> "empty",
        purger |-> "not_started", starts |-> 0]
  ELSE IF aws = "OK"
       THEN IF IsValid(o.dest_bucket) /\ o.run_purger
            THEN [st |-> aws, cenv |-> "env", thread |-> "empty",
                  purger |-> "running", starts |-> 1]
            ELSE [st |-> aws, cenv |-> "env", thread |-> "empty",
                  purger |-> "not_started", starts |-> 0]
       ELSE [st |-> aws, cenv |-> nullptr, thread |-> "empty",
             purger |-> "not_started", starts |-> 0]

\* the status of AwsEnv::NewAwsEnv is not looked at
NewAwsEnv_IgnoreStatus(o, aws, use_aws) ==
  IF ~use_aws
  THEN [st |-> "NotSupported", cenv |-> nullptr, thread |-> "empty",
        purger |-> "not_started", starts |-> 0]
  ELSE IF IsValid(o.dest_bucket) /\ o.run_purger
       THEN [st |-> aws, cenv |-> IF aws = "OK" THEN "env" ELSE nullptr,
             thread |-> "joinable", purger |-> "running", starts |-> 1]
       ELSE [st |-> aws, cenv |-> IF aws = "OK" THEN "env" ELSE nullptr,
             thread |-> "empty", purger |-> "not_started", starts |-> 0]

\* the destination bucket is not looked at
NewAwsEnv_IgnoreValid(o, aws, use_aws) ==
  IF ~use_aws
  THEN [st |-> "NotSupported", cenv |-> nullptr, thread |-> "empty",
        purger |-> "not_started", starts |-> 0]
  ELSE IF aws = "OK"
       THEN IF o.run_purger
            THEN [st |-> aws, cenv |-> "env", thread |-> "joinable",
                  purger |-> "running", starts |-> 1]
            ELSE [st |-> aws, cenv |-> "env", thread |-> "empty",
                  purger |-> "not_started", starts |-> 0]
       ELSE [st |-> aws, cenv |-> nullptr, thread |-> "empty",
             purger |-> "not_started", starts |-> 0]

\* CloudEnv::NewAwsEnv(base_env, options, logger, cenv) in the build without
\* USE_AWS (lines 133-138) and with it (lines 140-158); aws is the outcome of
\* AwsEnv::NewAwsEnv.  The result is the returned status, the pointer stored
\* through cenv, purge_thread_, the state of the Purger thread and the number
\* of threads started.
NewAwsEnv(o, aws, use_aws) ==
  IF ~use_aws
  THEN [st |-> "NotSupported", cenv |-> nullptr, thread |-> "empty",
        purger |-> "not_started", starts |-> 0]
  ELSE IF aws = "OK"
       THEN IF IsValid(o.dest_bucket) /\ o.run_purger
            THEN [st |-> aws, cenv |-> "env", thread |-> "joinable",
                  purger |-> "running", starts |-> 1]
            ELSE [st |-> aws, cenv |-> "env", thread |-> "empty",
                  purger |-> "not_started", starts |-> 0]
       ELSE [st |-> aws, cenv |-> nullptr, thread |-> "empty",
             purger |-> "not_started", starts |-> 0]

EnvInit ==
  /\ cloud_options \in CloudEnvOptionsSet
  /\ options = cloud_options
  /\ args = [form |-> "none", strings |-> NoStrings, aws |-> "OK"]
  /\ USE_AWS \in BOOLEAN
  /\ st = "none"
  /\ cenv = nullptr
  /\ phase = "idle"
  /\ purge_thread_ = "empty"
  /\ purger = "not_started"
  /\ purger_stop = FALSE
  /\ purgerStarts = 0
  /\ cloud_log_controller = "none"
  /\ storage_provider = "none"

\* what a call leaves behind: the environment, when one was made, holds the
\* provider and controller references of its options
Construct(opts, r) ==
  /\ options' = opts
  /\ st' = r.st
  /\ cenv' = r.cenv
  /\ purge_thread_' = r.thread
  /\ purger' = r.purger
  /\ purgerStarts' = purgerStarts + r.starts
  /\ phase' = IF r.st = "OK" THEN "running" ELSE "failed"
  /\ cloud_log_controller' = IF r.st = "OK" THEN "held" ELSE "none"
  /\ storage_provider' = IF r.st = "OK" THEN "held" ELSE "none"
  /\ UNCHANGED <<USE_AWS, purger_stop, pathVars, bucketVars>>

\* st = CloudEnv::NewAwsEnv(base_env, cloud_options, logger, &cenv);
CallNewAwsEnv(aws) ==
  /\ phase = "idle"
  /\ args' = [form |-> "options", strings |-> NoStrings, aws |-> aws]
  /\ cloud_options' = cloud_options
  /\ Construct(cloud_options, NewAwsEnv(cloud_options, aws, USE_AWS))

\* st = CloudEnv::NewAwsEnv(base_env, six strings, cloud_options, logger, &cenv);
CallNewAwsEnvStrings(a, aws) ==
  /\ phase = "idle"
  /\ args' = [form |-> "strings", strings |-> a, aws |-> aws]
  /\ LET r == ApplyStrings(cloud_options, a)
     IN /\ cloud_options' = r.cloud_options
        /\ Construct(r.options, NewAwsEnv(r.options, aws, USE_AWS))

\* delete cenv: the destructor of the derived environment asks the Purger
\* to stop
StopPurger ==
  /\ phase = "running"
  /\ purger_stop' = TRUE
  /\ phase' = "stopping"
  /\ UNCHANGED <<cloud_options, options, args, USE_AWS, st, cenv,
                 purge_thread_, purger, purgerStarts, cloud_log_controller,
                 storage_provider, pathVars, bucketVars>>

\* the Purger thread sees the stop request and leaves its loop
PurgerExit ==
  /\ purger = "running"
  /\ purger_stop
  /\ purger' = "exited"
  /\ UNCHANGED <<cloud_options, options, args, USE_AWS, st, cenv, phase,
                 purge_thread_, purger_stop, purgerStarts,
                 cloud_log_controller, storage_provider, pathVars, bucketVars>>

\* the derived destructor joins purge_thread_ when it is joinable, and then
\* the base destructor runs
JoinPurger ==
  /\ phase = "stopping"
  /\ purge_thread_ = "joinable" => purger = "exited"
  /\ purge_thread_' = "empty"
  /\ phase' = "base_dtor"
  /\ UNCHANGED <<cloud_options, options, args, USE_AWS, st, cenv, purger,
                 purger_stop, purgerStarts, cloud_log_controller,
                 storage_provider, pathVars, bucketVars>>

\* CloudEnv::~CloudEnv, line 107
ResetLogController ==
  /\ phase = "base_dtor"
  /\ cloud_log_controller' = "released"
  /\ phase' = "base_dtor_provider"
  /\ UNCHANGED <<cloud_options, options, args, USE_AWS, st, cenv,
                 purge_thread_, purger, purger_stop, purgerStarts,
                 storage_provider, pathVars, bucketVars>>

\* CloudEnv::~CloudEnv, line 108
ResetStorageProvider ==
  /\ phase = "base_dtor_provider"
  /\ storage_provider' = "released"
  /\ phase' = "terminated"
  /\ UNCHANGED <<cloud_options, options, args, USE_AWS, st, cenv,
                 purge_thread_, purger, purger_stop, purgerStarts,
                 cloud_log_controller, pathVars, bucketVars>>

----------------------------------------------------------------------------
(* Specifications *)

\* the parts a specification does not exercise stay in one fixed state
PathIdle ==
  /\ s = <<>> /\ s0 = <<>> /\ directory = <<>> /\ calls = 0
BucketIdle ==
  /\ bo = DefaultBucketOptions
  /\ env = [n \in EnvNames |-> NullValue]
  /\ result = <<>> /\ found = FALSE /\ call = NoCall /\ setenvs = 0
  /\ WIN32_WINNT = TRUE
EnvIdle ==
  /\ cloud_options = [src_bucket |-> DefaultBucketOptions,
                      dest_bucket |-> DefaultBucketOptions,
                      run_purger |-> TRUE]
  /\ options = cloud_options
  /\ args = [form |-> "none", strings |-> NoStrings, aws |-> "OK"]
  /\ USE_AWS = TRUE /\ st = "none" /\ cenv = nullptr /\ phase = "idle"
  /\ purge_thread_ = "empty" /\ purger = "not_started"
  /\ purger_stop = FALSE /\ purgerStarts = 0
  /\ cloud_log_controller = "none" /\ storage_provider = "none"

\* the (name, alt) pairs the lookups are made with
LookupPairs ==
  {<<"ROCKSDB_CLOUD_TEST_BUCKET_NAME", "ROCKSDB_CLOUD_BUCKET_NAME">>,
   <<"ROCKSDB_CLOUD_TEST_BUCKET_PREFIX", "ROCKSDB_CLOUD_BUCKET_PREFIX">>,
   <<"ROCKSDB_CLOUD_TEST_OBECT_PATH", "ROCKSDB_CLOUD_OBJECT_PATH">>,
   <<"ROCKSDB_CLOUD_TEST_REGION", "ROCKSDB_CLOUD_REGION">>,
   <<"ROCKSDB_CLOUD_TEST_BUCKET_NAME", nullptr>>,
   <<"ROCKSDB_CLOUD_BUCKET_NAME", nullptr>>}

PathNext == CallPathtoName
InitPath == PathInit /\ BucketIdle /\ EnvIdle
SpecPath == InitPath /\ [][PathNext]_vars

LookupNext ==
  \/ \E n \in EnvNames, v \in EnvValues : Setenv(n, v)
  \/ \E p \in LookupPairs : CallGetNameFromEnvironment(p[1], p[2])
InitLookup == BucketInit /\ PathIdle /\ EnvIdle
SpecLookup == InitLookup /\ [][LookupNext]_vars

BucketNext ==
  \/ \E n \in EnvNames, v \in EnvValues : Setenv(n, v)
  \/ \E b \in BucketNames, p \in Prefixes : CallSetBucketName(b, p)
  \/ \E b \in BucketNames : CallTEST_Initialize(b, <<"o">>, <<"r">>)
InitBucket == BucketInit /\ PathIdle /\ EnvIdle
SpecBucket == InitBucket /\ [][BucketNext]_vars

EnvNext ==
  \/ \E aws \in AwsOutcomes : CallNewAwsEnv(aws)
  \/ \E a \in StringArgs, aws \in AwsOutcomes : CallNewAwsEnvStrings(a, aws)
  \/ StopPurger
  \/ PurgerExit
  \/ JoinPurger
  \/ ResetLogController
  \/ ResetStorageProvider
InitEnv == EnvInit /\ PathIdle /\ BucketIdle
SpecEnv == InitEnv /\ [][EnvNext]_vars

Next == PathNext \/ LookupNext \/ BucketNext \/ EnvNext
Init == PathInit /\ BucketInit /\ EnvInit
Spec == Init /\ [][Next]_vars

----------------------------------------------------------------------------
(* Properties *)

Letters == {"a", "b"}
AllIn(str, lo, hi, set) == \A i \in lo..hi : str[i] \in set

\* str is x, then k separators, then y, with x and y non-empty runs of
\* letters and x of length i
IsSeparatedPair(str, i, k) ==
  /\ i >= 1 /\ k >= 1 /\ i + k < Len(str)
  /\ AllIn(str, 1, i, Letters)
  /\ AllIn(str, i + 1, i + k, {Sep})
  /\ AllIn(str, i + k + 1, Len(str), Letters)

\* C1: once the CloudEnv destructor has released cloud_log_controller or
\* storage_provider, the Purger is not running: when one was started it has
\* been asked to stop, has exited and has been joined.
C1_PurgerStoppedBeforeRelease ==
  (cloud_log_controller = "released" \/ storage_provider = "released")
    => /\ purger # "running"
       /\ purgerStarts >= 1
            => purger_stop /\ purger = "exited" /\ purge_thread_ = "empty"

C1_Witness ==
  /\ phase = "terminated" /\ purgerStarts = 1 /\ purger = "exited"
  /\ cloud_log_controller = "released" /\ storage_provider = "released"

\* C2 as stated: after any call of NewAwsEnv, no Purger was started when
\* dest_bucket.IsValid() is false, and exactly one was started when
\* dest_bucket.IsValid() and run_purger are both true.
C2_Original ==
  phase # "idle" =>
    /\ ~IsValid(options.dest_bucket) => purgerStarts = 0
    /\ IsValid(options.dest_bucket) /\ options.run_purger => purgerStarts = 1

\* C2: after any call of NewAwsEnv, no Purger was started when
\* dest_bucket.IsValid() is false, whatever run_purger is, and exactly one
\* was started when the call returned OK and dest_bucket.IsValid() and
\* run_purger are both true.
C2_PurgerStartedIffValidAndEnabled ==
  phase # "idle" =>
    /\ ~IsValid(options.dest_bucket) => purgerStarts = 0
    /\ st = "OK" /\ IsValid(options.dest_bucket) /\ options.run_purger
         => purgerStarts = 1 /\ purger # "not_started"

C2_Witness ==
  /\ phase = "running" /\ st = "OK" /\ purgerStarts = 1
  /\ IsValid(options.dest_bucket) /\ options.run_purger
  /\ purger = "running"

\* C3: when NewAwsEnv fails, the caller gets the failure status
\* (NotSupported in the build without USE_AWS, the status of
\* AwsEnv::NewAwsEnv otherwise), nothing is stored through cenv and no
\* Purger thread is started, also with a valid dest_bucket and run_purger.
C3_FailureLeavesNothingRunning ==
  (phase # "idle" /\ st # "OK") =>
    /\ st = IF USE_AWS THEN args.aws ELSE "NotSupported"
    /\ cenv = nullptr
    /\ purgerStarts = 0 /\ purger = "not_started" /\ purge_thread_ = "empty"
    /\ phase = "failed"

C3_Witness ==
  /\ phase = "failed" /\ USE_AWS /\ st = "IOError" /\ cenv = nullptr
  /\ IsValid(options.dest_bucket) /\ options.run_purger
  /\ purgerStarts = 0

\* C4: in every state of a BucketOptions, name = prefix + bucket when bucket
\* is non-empty, and name is empty exactly when bucket is empty.
C4_NameInvariant ==
  /\ bo.bucket_ # <<>> => bo.name_ = bo.prefix_ \o bo.bucket_
  /\ bo.name_ = <<>> <=> bo.bucket_ = <<>>

\* C5: a step SetBucketName(bucket, prefix) replaces the prefix only when the
\* argument is non-empty, always replaces bucket, leaves name = prefix +
\* bucket for a non-empty bucket and empty otherwise, and a second call with
\* the same arguments changes nothing.
C5_SetBucketName ==
  [][(call'.op = "SetBucketName" /\ setenvs' = setenvs) =>
       /\ bo'.prefix_ = IF call'.prefix # <<>> THEN call'.prefix
                                                ELSE bo.prefix_
       /\ bo'.bucket_ = call'.bucket
       /\ bo'.name_ = IF call'.bucket # <<>>
                      THEN bo'.prefix_ \o call'.bucket ELSE <<>>
       /\ call' = call => bo' = bo]_vars

C5_Witness ==
  /\ call.op = "SetBucketName"
  /\ call.bucket # <<>> /\ call.prefix # <<>>
  /\ bo.prefix_ = call.prefix /\ bo.bucket_ = call.bucket
  /\ bo.name_ = call.prefix \o call.bucket

\* C6: the name returned by pathtoName holds no path separator.
C6_NoSeparator == calls >= 1 => ~HasSep(directory)

\* C7: a step GetNameFromEnvironment(name, alt, &result) returns true with
\* result = the value of name when name is set, whatever alt is; returns true
\* with result = the value of alt when only alt is set and alt is not null;
\* and otherwise returns false and leaves result as it was.
C7_GetNameFromEnvironment ==
  [][(call'.op = "GetNameFromEnvironment" /\ setenvs' = setenvs) =>
       LET n == call'.name
           a == call'.alt
       IN /\ ~env[n].null => found' /\ result' = env[n].val
          /\ (env[n].null /\ a # nullptr /\ ~env[a].null)
               => found' /\ result' = env[a].val
          /\ (env[n].null /\ (a = nullptr \/ env[a].null))
               => ~found' /\ result' = result]_vars

C7_Witness ==
  /\ call.op = "GetNameFromEnvironment" /\ call.alt # nullptr
  /\ ~env[call.name].null /\ ~env[call.alt].null
  /\ env[call.name].val # env[call.alt].val
  /\ found /\ result = env[call.name].val

\* one bucket of the options after the convenience form, against the same
\* bucket of the caller's cloud_options and the three strings given for it
BucketOverridden(b, cb, bucket, object, region) ==
  /\ b.prefix_ = cb.prefix_
  /\ b.bucket_ = IF bucket = <<>> THEN cb.bucket_ ELSE bucket
  /\ b.name_ = IF bucket = <<>> THEN cb.name_ ELSE cb.prefix_ \o bucket
  /\ b.object_ = IF object = <<>> THEN cb.object_ ELSE object
  /\ b.region_ = IF region = <<>> THEN cb.region_ ELSE region

\* C8: a call of the six-string form passes on options in which every field
\* whose string is empty is as in cloud_options and every field whose string
\* is non-empty holds that string (a bucket string with the name recomputed
\* from the configured prefix), and leaves cloud_options as it was.
C8_PartialOverride ==
  [][(phase = "idle" /\ phase' # "idle" /\ args'.form = "strings") =>
       LET a == args'.strings
       IN /\ cloud_options' = cloud_options
          /\ options'.run_purger = cloud_options.run_purger
          /\ BucketOverridden(options'.src_bucket, cloud_options.src_bucket,
                              a.src_cloud_bucket, a.src_cloud_object,
                              a.src_cloud_region)
          /\ BucketOverridden(options'.dest_bucket, cloud_options.dest_bucket,
                              a.dest_cloud_bucket, a.dest_cloud_object,
                              a.dest_cloud_region)]_vars

C8_Witness ==
  /\ phase # "idle" /\ args.form = "strings"
  /\ args.strings.src_cloud_bucket = <<"x">>
  /\ args.strings.src_cloud_object = <<>>
  /\ args.strings.dest_cloud_bucket = <<>>
  /\ args.strings.dest_cloud_region = <<"x">>
  /\ options.src_bucket.name_ = RocksetPrefix \o <<"x">>
  /\ options.src_bucket.object_ = <<"o">>
  /\ options.dest_bucket.bucket_ = <<"b">>
  /\ options.dest_bucket.region_ = <<"x">>
  /\ cloud_options.src_bucket.bucket_ = <<"b">>
  /\ cloud_options.dest_bucket.region_ = <<"r">>

\* C9 as stated: k separators between two non-empty runs of letters come out
\* as k dashes.
C9_Original ==
  calls >= 1 =>
    \A i \in 1..Len(s0), k \in 1..Len(s0) :
      IsSeparatedPair(s0, i, k) =>
        directory = SubSeq(s0, 1, i) \o Rep(Dash, k)
                      \o SubSeq(s0, i + k + 1, Len(s0))

\* C9: k >= 1 separators between two non-empty runs of letters come out as
\* one dash, so a, two separators, b flattens to a-b.
C9_OneDashPerSeparatorRun ==
  calls >= 1 =>
    \A i \in 1..Len(s0), k \in 1..Len(s0) :
      IsSeparatedPair(s0, i, k) =>
        directory = SubSeq(s0, 1, i) \o <<Dash>>
                      \o SubSeq(s0, i + k + 1, Len(s0))

C9_Witness ==
  /\ calls = 1
  /\ s0 = <<"a", Sep, Sep, "b">>
  /\ directory = <<"a", Dash, "b">>

\* C10: a call of pathtoName leaves the caller's string as it was.
C10_ArgumentUnchanged == calls >= 1 => s = s0

====
